---- MODULE Spec2Model ----
(***************************************************************************)
(* JiraExporter: the paginated issue retrieval of JiraClient, the ADF to   *)
(* Markdown converter it feeds, and the Flask routes that drive them.      *)
(*                                                                         *)
(* Python values are tagged records (field k names the Python type), so    *)
(* that a value of any type can stand where the code expects a dict, a     *)
(* list or a string.  A Python string is a sequence of one-character       *)
(* strings.  A call that can raise returns [ok |-> FALSE, e |-> kind].     *)
(***************************************************************************)
EXTENDS Integers, Sequences, FiniteSets, TLC

VARIABLES
    creds,            \* app.py 51-53: which of the three credentials are set
    authenticated,    \* session['authenticated']
    pc,               \* position of the running handler / call
    route,            \* the route being served, "none" between requests
    http,             \* the last response a route sent to the browser
    project,          \* the remote project the export asked for
    jira_calls,       \* outbound calls per Jira endpoint, in this run
    myself,           \* the answer of GET /myself to this request, if asked
    all_projects,     \* get_all_projects: all_projects
    start_at,         \* get_all_projects: start_at
    project_pages,    \* the answers of GET /project/search to this call, in order
    jql,              \* _fetch_issues_by_jql: the jql argument
    all_issues,       \* _fetch_issues_by_jql: all_issues
    next_page_token,  \* _fetch_issues_by_jql: next_page_token
    page_count,       \* _fetch_issues_by_jql: page_count
    last_payload,     \* the payload of the last search request
    last_response,    \* the last response of the search endpoint
    received,         \* raw records of every page read so far, in order
    fetch_result,     \* what _fetch_issues_by_jql gave its caller
    server,           \* which simulated search endpoint answers
    conv_in,          \* the value handed to the converter
    conv_call,        \* which converter entry point ran
    conv_out          \* what it returned

fetchVars == <<jql, all_issues, next_page_token, page_count, last_payload,
               last_response, received, fetch_result, server>>
appVars == <<creds, authenticated, route, http, project, jira_calls, myself,
             all_projects, start_at, project_pages>>
convVars == <<conv_in, conv_call, conv_out>>
vars == <<pc, appVars, fetchVars, convVars>>

----------------------------------------------------------------------------
(* Python values *)

EmptyMap == [x \in {} |-> 0]
JNull == [k |-> "null"]
JStr(s) == [k |-> "str", s |-> s]
JNum(n) == [k |-> "num", n |-> n]
JBool(b) == [k |-> "bool", b |-> b]
JList(xs) == [k |-> "list", xs |-> xs]
JObj(f) == [k |-> "obj", f |-> f]

Ok(s) == [ok |-> TRUE, s |-> s]
OkSeq(xs) == [ok |-> TRUE, xs |-> xs]
OkVal(v) == [ok |-> TRUE, v |-> v]
Raise(e) == [ok |-> FALSE, e |-> e]

\* dict.get(key, default)
Get(o, key, default) == IF key \in DOMAIN o.f THEN o.f[key] ELSE default

\* bool(v)
Truthy(v) ==
    CASE v.k = "null" -> FALSE
      [] v.k = "bool" -> v.b
      [] v.k = "num" -> v.n # 0
      [] v.k = "str" -> Len(v.s) > 0
      [] v.k = "list" -> Len(v.xs) > 0
      [] v.k = "obj" -> DOMAIN v.f # {}

\* The items "for x in v" visits: the elements of a list, the characters of
\* a string, the keys of a dict (a key is kept as one opaque character: no
\* caller looks inside it); None, numbers and booleans are not iterable.
KeysOf(f) ==
    LET RECURSIVE Pick(_)
        Pick(S) == IF S = {} THEN <<>>
                   ELSE LET x == CHOOSE y \in S : TRUE
                        IN <<JStr(<<x>>)>> \o Pick(S \ {x})
    IN Pick(DOMAIN f)

Iter(v) ==
    CASE v.k = "list" -> OkSeq(v.xs)
      [] v.k = "str" -> OkSeq([i \in 1..Len(v.s) |-> JStr(<<v.s[i]>>)])
      [] v.k = "obj" -> OkSeq(KeysOf(v.f))
      [] OTHER -> Raise("TypeError")

----------------------------------------------------------------------------
(* Python strings *)

Whitespace == {" ", "\n", "\t"}

\* The backtick character (a TLA+ string literal cannot hold one).
Backtick == "[backtick]"

RECURSIVE LStrip(_)
LStrip(s) == IF s # <<>> /\ Head(s) \in Whitespace THEN LStrip(Tail(s)) ELSE s

RECURSIVE RStrip(_)
RStrip(s) ==
    IF s # <<>> /\ s[Len(s)] \in Whitespace
    THEN RStrip(SubSeq(s, 1, Len(s) - 1)) ELSE s

\* str.strip()
Strip(s) == RStrip(LStrip(s))

\* Faulty variant: the newlines of a cell are kept.
ReplaceNewlinesKept(s) == s

\* str.replace('\n', ' ')
ReplaceNewlines(s) == [i \in 1..Len(s) |-> IF s[i] = "\n" THEN " " ELSE s[i]]

\* str.split('\n'): always at least one piece
RECURSIVE SplitLines(_)
SplitLines(s) ==
    IF \A i \in 1..Len(s) : s[i] # "\n" THEN <<s>>
    ELSE LET p == CHOOSE i \in 1..Len(s) :
                      s[i] = "\n" /\ \A j \in 1..(i - 1) : s[j] # "\n"
         IN <<SubSeq(s, 1, p - 1)>> \o SplitLines(SubSeq(s, p + 1, Len(s)))

\* sep.join(parts)
RECURSIVE Join(_, _)
Join(sep, parts) ==
    IF parts = <<>> THEN <<>>
    ELSE IF Len(parts) = 1 THEN parts[1]
    ELSE parts[1] \o sep \o Join(sep, Tail(parts))

\* s * n
RECURSIVE Repeat(_, _)
Repeat(s, n) == IF n <= 0 THEN <<>> ELSE s \o Repeat(s, n - 1)

Digit(d) == <<"0", "1", "2", "3", "4", "5", "6", "7", "8", "9">>[d + 1]

RECURSIVE NatToStr(_)
NatToStr(n) == IF n < 10 THEN <<Digit(n)>>
               ELSE NatToStr(n \div 10) \o <<Digit(n % 10)>>

IntToStr(n) == IF n < 0 THEN <<"-">> \o NatToStr(-n) ELSE NatToStr(n)

\* str(v), as an f-string renders v.  The repr of a list or a dict is kept
\* as one opaque character: it holds no newline and is not whitespace.
PyStr(v) ==
    CASE v.k = "str" -> v.s
      [] v.k = "null" -> <<"N", "o", "n", "e">>
      [] v.k = "bool" -> IF v.b THEN <<"T", "r", "u", "e">>
                         ELSE <<"F", "a", "l", "s", "e">>
      [] v.k = "num" -> IntToStr(v.n)
      [] OTHER -> <<"<repr>">>

----------------------------------------------------------------------------
(* The literals of the converter *)

T_doc == <<"d", "o", "c">>
T_paragraph == <<"p", "a", "r", "a", "g", "r", "a", "p", "h">>
T_heading == <<"h", "e", "a", "d", "i", "n", "g">>
T_bulletList == <<"b", "u", "l", "l", "e", "t", "L", "i", "s", "t">>
T_orderedList == <<"o", "r", "d", "e", "r", "e", "d", "L", "i", "s", "t">>
T_listItem == <<"l", "i", "s", "t", "I", "t", "e", "m">>
T_codeBlock == <<"c", "o", "d", "e", "B", "l", "o", "c", "k">>
T_blockquote == <<"b", "l", "o", "c", "k", "q", "u", "o", "t", "e">>
T_rule == <<"r", "u", "l", "e">>
T_hardBreak == <<"h", "a", "r", "d", "B", "r", "e", "a", "k">>
T_table == <<"t", "a", "b", "l", "e">>
T_tableRow == <<"t", "a", "b", "l", "e", "R", "o", "w">>
T_tableCell == <<"t", "a", "b", "l", "e", "C", "e", "l", "l">>
T_tableHeader == <<"t", "a", "b", "l", "e", "H", "e", "a", "d", "e", "r">>
T_text == <<"t", "e", "x", "t">>
T_mention == <<"m", "e", "n", "t", "i", "o", "n">>
T_emoji == <<"e", "m", "o", "j", "i">>
T_inlineCard == <<"i", "n", "l", "i", "n", "e", "C", "a", "r", "d">>
T_blockCard == <<"b", "l", "o", "c", "k", "C", "a", "r", "d">>
T_mediaSingle == <<"m", "e", "d", "i", "a", "S", "i", "n", "g", "l", "e">>
T_media == <<"m", "e", "d", "i", "a">>
T_expand == <<"e", "x", "p", "a", "n", "d">>
T_nestedExpand == <<"n", "e", "s", "t", "e", "d", "E", "x", "p", "a", "n", "d">>

M_strong == <<"s", "t", "r", "o", "n", "g">>
M_em == <<"e", "m">>
M_code == <<"c", "o", "d", "e">>
M_link == <<"l", "i", "n", "k">>
M_strike == <<"s", "t", "r", "i", "k", "e">>

MediaPlaceholder ==
    <<"<", "!", "-", "-", " ", "m", "e", "d", "i", "a", " ", "a", "t", "t",
      "a", "c", "h", "m", "e", "n", "t", " ", "-", "-", ">", "\n", "\n">>
S_unknown == <<"u", "n", "k", "n", "o", "w", "n">>
S_Details == <<"D", "e", "t", "a", "i", "l", "s">>
DetailsOpen ==
    <<"<", "d", "e", "t", "a", "i", "l", "s", ">", "\n",
      "<", "s", "u", "m", "m", "a", "r", "y", ">">>
DetailsMid == <<"<", "/", "s", "u", "m", "m", "a", "r", "y", ">", "\n", "\n">>
DetailsClose ==
    <<"\n", "<", "/", "d", "e", "t", "a", "i", "l", "s", ">", "\n", "\n">>

\* The types _process_adf_node has a branch for.
KnownTypes ==
    {T_doc, T_paragraph, T_heading, T_bulletList, T_orderedList, T_listItem,
     T_codeBlock, T_blockquote, T_rule, T_hardBreak, T_table, T_tableRow,
     T_tableCell, T_tableHeader, T_text, T_mention, T_emoji, T_inlineCard,
     T_blockCard, T_mediaSingle, T_media, T_expand, T_nestedExpand}

\* list_index=None
NoIndex == 0

----------------------------------------------------------------------------
(* Propagation of a raised exception through a chain of calls *)

\* r, or what F makes of it when r did not raise
Then(r, F(_)) == IF r.ok THEN F(r) ELSE r

\* a + b of two strings, the first exception raised winning
Cat(a, b) == IF ~a.ok THEN a ELSE IF ~b.ok THEN b ELSE Ok(a.s \o b.s)

\* [h.s] + t.xs, [h.xs] + t.xs, [h.v] + t.xs
ConsStr(h, t) ==
    IF ~h.ok THEN h ELSE IF ~t.ok THEN t ELSE OkSeq(<<h.s>> \o t.xs)
ConsRow(h, t) ==
    IF ~h.ok THEN h ELSE IF ~t.ok THEN t ELSE OkSeq(<<h.xs>> \o t.xs)
ConsVal(h, t) ==
    IF ~h.ok THEN h ELSE IF ~t.ok THEN t ELSE OkSeq(<<h.v>> \o t.xs)

----------------------------------------------------------------------------
(* JiraClient._process_adf_node and _process_table_node *)

RECURSIVE ProcessAdfNode(_, _, _)
RECURSIVE ProcessTableNode(_)

\* ''.join(self._process_adf_node(child, level) for child in xs[i..])
RECURSIVE ConcatNodes(_, _, _)
ConcatNodes(xs, level, i) ==
    IF i > Len(xs) THEN Ok(<<>>)
    ELSE Cat(ProcessAdfNode(xs[i], level, NoIndex),
             ConcatNodes(xs, level, i + 1))

\* "for child in content: result.append(self._process_adf_node(child, level))"
JoinContent(content, level) ==
    Then(Iter(content), LAMBDA it : ConcatNodes(it.xs, level, 1))

\* "for idx, child in enumerate(content, 1)": the child's position is passed
RECURSIVE ConcatIndexed(_, _, _)
ConcatIndexed(xs, level, i) ==
    IF i > Len(xs) THEN Ok(<<>>)
    ELSE Cat(ProcessAdfNode(xs[i], level, i), ConcatIndexed(xs, level, i + 1))

Paragraph(content, level) ==
    Then(JoinContent(content, level),
         LAMBDA r : IF Strip(r.s) # <<>> THEN Ok(r.s \o <<"\n", "\n">>)
                    ELSE Ok(<<>>))

\* '#' * heading_level
Hashes(v) ==
    CASE v.k = "num" -> Ok(Repeat(<<"#">>, v.n))
      [] v.k = "bool" -> Ok(Repeat(<<"#">>, IF v.b THEN 1 ELSE 0))
      [] OTHER -> Raise("TypeError")

Heading(content, attrs, level) ==
    IF attrs.k # "obj" THEN Raise("AttributeError")
    ELSE Then(JoinContent(content, level),
              LAMBDA heading_text :
                  Then(Hashes(Get(attrs, "level", JNum(1))),
                       LAMBDA hashes :
                           Ok(hashes.s \o <<" ">> \o heading_text.s
                              \o <<"\n", "\n">>)))

BulletList(content, level) ==
    Then(JoinContent(content, level), LAMBDA r : Ok(r.s \o <<"\n">>))

OrderedList(content, level) ==
    Then(Iter(content),
         LAMBDA it : Then(ConcatIndexed(it.xs, level, 1),
                          LAMBDA r : Ok(r.s \o <<"\n">>)))

\* "if child_text.strip(): item_parts.append(child_text.strip())"
ConsPart(h, t) ==
    IF ~h.ok THEN h
    ELSE IF ~t.ok THEN t
    ELSE IF Strip(h.s) # <<>> THEN OkSeq(<<Strip(h.s)>> \o t.xs)
    ELSE t

\* item_parts: the stripped text of every child whose text is not blank
RECURSIVE ItemParts(_, _, _)
ItemParts(xs, level, i) ==
    IF i > Len(xs) THEN OkSeq(<<>>)
    ELSE ConsPart(ProcessAdfNode(xs[i], level + 1, NoIndex),
                  ItemParts(xs, level, i + 1))

\* "N. " for an ordered item, "- " otherwise
ItemMarker(list_index) ==
    IF list_index # NoIndex THEN IntToStr(list_index) \o <<".", " ">>
    ELSE <<"-", " ">>

ListItem(content, level, list_index) ==
    Then(Iter(content),
         LAMBDA it :
             Then(ItemParts(it.xs, level, 1),
                  LAMBDA parts :
                      Ok(Repeat(<<" ", " ">>, level) \o ItemMarker(list_index)
                         \o Join(<<" ">>, parts.xs) \o <<"\n">>)))

\* child.get('text', '') of every child
RECURSIVE TextsOf(_)
TextsOf(xs) ==
    IF xs = <<>> THEN <<>>
    ELSE <<Get(Head(xs), "text", JStr(<<>>))>> \o TextsOf(Tail(xs))

RECURSIVE ConcatStrs(_)
ConcatStrs(vs) == IF vs = <<>> THEN <<>> ELSE Head(vs).s \o ConcatStrs(Tail(vs))

\* ''.join(vs): TypeError unless every item is a str
JoinStrs(vs) ==
    IF \E i \in 1..Len(vs) : vs[i].k # "str" THEN Raise("TypeError")
    ELSE Ok(ConcatStrs(vs))

\* ''.join(child.get('text', '') for child in content)
CodeText(content) ==
    Then(Iter(content),
         LAMBDA it : IF \E i \in 1..Len(it.xs) : it.xs[i].k # "obj"
                     THEN Raise("AttributeError")
                     ELSE JoinStrs(TextsOf(it.xs)))

CodeBlock(content, attrs) ==
    Then(CodeText(content),
         LAMBDA code_text :
             IF attrs.k # "obj" THEN Raise("AttributeError")
             ELSE Ok(<<Backtick, Backtick, Backtick>>
                     \o PyStr(Get(attrs, "language", JStr(<<>>))) \o <<"\n">>
                     \o code_text.s
                     \o <<"\n", Backtick, Backtick, Backtick, "\n", "\n">>))

\* ['> ' + line for line in quote_text.split('\n') if line.strip()]
RECURSIVE QuotedLines(_)
QuotedLines(ls) ==
    IF ls = <<>> THEN <<>>
    ELSE IF Strip(Head(ls)) # <<>>
         THEN <<<<">", " ">> \o Head(ls)>> \o QuotedLines(Tail(ls))
         ELSE QuotedLines(Tail(ls))

Blockquote(content, level) ==
    Then(JoinContent(content, level),
         LAMBDA r : Ok(Join(<<"\n">>, QuotedLines(SplitLines(r.s)))
                       \o <<"\n", "\n">>))

\* mark.get('attrs', {}).get('href', '')
Href(mark) ==
    IF Get(mark, "attrs", JObj(EmptyMap)).k # "obj" THEN Raise("AttributeError")
    ELSE Ok(PyStr(Get(Get(mark, "attrs", JObj(EmptyMap)), "href", JStr(<<>>))))

\* One pass of "for mark in marks" over formatted_text, a Python value.
ApplyMark(mark, ft) ==
    IF mark.k # "obj" THEN Raise("AttributeError")
    ELSE LET mark_type == Get(mark, "type", JNull)
         IN CASE mark_type = JStr(M_strong) ->
                     OkVal(JStr(<<"*", "*">> \o PyStr(ft) \o <<"*", "*">>))
              [] mark_type = JStr(M_em) ->
                     OkVal(JStr(<<"*">> \o PyStr(ft) \o <<"*">>))
              [] mark_type = JStr(M_code) ->
                     OkVal(JStr(<<Backtick>> \o PyStr(ft) \o <<Backtick>>))
              [] mark_type = JStr(M_link) ->
                     Then(Href(mark),
                          LAMBDA href :
                              OkVal(JStr(<<"[">> \o PyStr(ft) \o <<"]", "(">>
                                         \o href.s \o <<")">>)))
              [] mark_type = JStr(M_strike) ->
                     OkVal(JStr(<<"~", "~">> \o PyStr(ft) \o <<"~", "~">>))
              [] OTHER -> OkVal(ft)

\* Faulty variant: the marks are applied from the last to the first, so the
\* first mark listed ends up outermost.
RECURSIVE ApplyMarksLastFirst(_, _, _)
ApplyMarksLastFirst(ms, i, ft) ==
    IF i > Len(ms) THEN OkVal(ft)
    ELSE Then(ApplyMarksLastFirst(ms, i + 1, ft),
              LAMBDA r : ApplyMark(ms[i], r.v))

RECURSIVE ApplyMarks(_, _, _)
ApplyMarks(ms, i, ft) ==
    IF i > Len(ms) THEN OkVal(ft)
    ELSE Then(ApplyMark(ms[i], ft), LAMBDA r : ApplyMarks(ms, i + 1, r.v))

\* ''.join([v]) of one appended value: a str, or TypeError
JoinOne(v) == IF v.k = "str" THEN Ok(v.s) ELSE Raise("TypeError")

Text(node, text) ==
    Then(Iter(Get(node, "marks", JList(<<>>))),
         LAMBDA marks : Then(ApplyMarks(marks.xs, 1, text),
                             LAMBDA formatted_text : JoinOne(formatted_text.v)))

Mention(attrs) ==
    IF attrs.k # "obj" THEN Raise("AttributeError")
    ELSE Ok(<<"@">> \o PyStr(Get(attrs, "text",
                                 Get(attrs, "displayName", JStr(S_unknown)))))

Emoji(attrs) ==
    IF attrs.k # "obj" THEN Raise("AttributeError")
    ELSE JoinOne(IF Truthy(Get(attrs, "text", JNull))
                 THEN Get(attrs, "text", JNull)
                 ELSE Get(attrs, "shortName", JStr(<<>>)))

Card(attrs) ==
    IF attrs.k # "obj" THEN Raise("AttributeError")
    ELSE LET url == PyStr(Get(attrs, "url", JStr(<<>>)))
         IN Ok(<<"[">> \o url \o <<"]", "(">> \o url \o <<")">>)

Expand(content, attrs, level) ==
    IF attrs.k # "obj" THEN Raise("AttributeError")
    ELSE Then(JoinContent(content, level),
              LAMBDA inner :
                  Ok(DetailsOpen \o PyStr(Get(attrs, "title", JStr(S_Details)))
                     \o DetailsMid \o inner.s \o DetailsClose))

\* Faulty variant: the children of an unknown node are dropped.
CatchAllDropped(content, level) == Ok(<<>>)

\* The else branch: recurse into the children, no wrapper.
CatchAll(content, level) == JoinContent(content, level)

ProcessAdfNode(node, level, list_index) ==
    IF node.k # "obj" THEN Ok(<<>>)
    ELSE LET node_type == Get(node, "type", JStr(<<>>))
             content == Get(node, "content", JList(<<>>))
             text == Get(node, "text", JStr(<<>>))
             attrs == Get(node, "attrs", JObj(EmptyMap))
         IN CASE node_type = JStr(T_doc) -> JoinContent(content, level)
              [] node_type = JStr(T_paragraph) -> Paragraph(content, level)
              [] node_type = JStr(T_heading) -> Heading(content, attrs, level)
              [] node_type = JStr(T_bulletList) -> BulletList(content, level)
              [] node_type = JStr(T_orderedList) -> OrderedList(content, level)
              [] node_type = JStr(T_listItem) ->
                     ListItem(content, level, list_index)
              [] node_type = JStr(T_codeBlock) -> CodeBlock(content, attrs)
              [] node_type = JStr(T_blockquote) -> Blockquote(content, level)
              [] node_type = JStr(T_rule) -> Ok(<<"-", "-", "-", "\n", "\n">>)
              [] node_type = JStr(T_hardBreak) -> Ok(<<" ", " ", "\n">>)
              [] node_type = JStr(T_table) -> ProcessTableNode(node)
              [] node_type \in {JStr(T_tableRow), JStr(T_tableCell),
                                JStr(T_tableHeader)} ->
                     JoinContent(content, level)
              [] node_type = JStr(T_text) -> Text(node, text)
              [] node_type = JStr(T_mention) -> Mention(attrs)
              [] node_type = JStr(T_emoji) -> Emoji(attrs)
              [] node_type \in {JStr(T_inlineCard), JStr(T_blockCard)} ->
                     Card(attrs)
              [] node_type \in {JStr(T_mediaSingle), JStr(T_media)} ->
                     Ok(MediaPlaceholder)
              [] node_type \in {JStr(T_expand), JStr(T_nestedExpand)} ->
                     Expand(content, attrs, level)
              [] OTHER -> CatchAll(content, level)

\* One cell of a row: its children converted at level 0, joined, stripped,
\* newlines turned into spaces.
CellText(cell) ==
    IF cell.k # "obj" THEN Raise("AttributeError")
    ELSE Then(JoinContent(Get(cell, "content", JList(<<>>)), 0),
              LAMBDA r : Ok(ReplaceNewlines(Strip(r.s))))

RECURSIVE RowCells(_, _)
RowCells(cs, i) ==
    IF i > Len(cs) THEN OkSeq(<<>>)
    ELSE ConsStr(CellText(cs[i]), RowCells(cs, i + 1))

RowOf(row) ==
    IF row.k # "obj" THEN Raise("AttributeError")
    ELSE Then(Iter(Get(row, "content", JList(<<>>))),
              LAMBDA it : RowCells(it.xs, 1))

\* md_rows
RECURSIVE MdRows(_, _)
MdRows(rows, i) ==
    IF i > Len(rows) THEN OkSeq(<<>>)
    ELSE ConsRow(RowOf(rows[i]), MdRows(rows, i + 1))

\* max(len(r) for r in md_rows)
MaxLen(md_rows) ==
    CHOOSE n \in {Len(md_rows[i]) : i \in 1..Len(md_rows)} :
        \A i \in 1..Len(md_rows) : Len(md_rows[i]) <= n

\* Faulty variant: the empty cells are put in front of the row.
PadRowOnLeft(row, col_count) ==
    [i \in 1..(col_count - Len(row)) |-> <<>>] \o row

\* "while len(row) < col_count: row.append('')"
PadRow(row, col_count) ==
    row \o [i \in 1..(col_count - Len(row)) |-> <<>>]

TableLine(cells) == <<"|", " ">> \o Join(<<" ", "|", " ">>, cells) \o <<" ", "|">>

TableLines(md_rows) ==
    LET col_count == MaxLen(md_rows)
        padded == [i \in 1..Len(md_rows) |-> PadRow(md_rows[i], col_count)]
        sep == [i \in 1..col_count |-> <<"-", "-", "-">>]
    IN <<TableLine(padded[1]), TableLine(sep)>>
       \o [i \in 1..(Len(padded) - 1) |-> TableLine(padded[i + 1])]

ProcessTableNode(table_node) ==
    IF ~Truthy(Get(table_node, "content", JList(<<>>))) THEN Ok(<<>>)
    ELSE Then(Iter(Get(table_node, "content", JList(<<>>))),
              LAMBDA it :
                  Then(MdRows(it.xs, 1),
                       LAMBDA md_rows :
                           IF md_rows.xs = <<>> THEN Ok(<<>>)
                           ELSE Ok(Join(<<"\n">>, TableLines(md_rows.xs))
                                   \o <<"\n", "\n">>)))

\* JiraClient._convert_adf_to_markdown
ConvertAdfToMarkdown(adf_content) ==
    IF ~Truthy(adf_content) THEN Ok(<<>>)
    ELSE Then(ProcessAdfNode(adf_content, 0, NoIndex),
              LAMBDA r : Ok(Strip(r.s)))

----------------------------------------------------------------------------
(* JiraClient._process_issue *)

\* fields['parent'] -> {'key': ..., 'summary': ...}
ParentRef(parent) ==
    IF parent.k # "obj" THEN Raise("TypeError")
    ELSE IF "key" \notin DOMAIN parent.f THEN Raise("KeyError")
    ELSE IF "fields" \notin DOMAIN parent.f THEN Raise("KeyError")
    ELSE IF parent.f["fields"].k # "obj" THEN Raise("AttributeError")
    ELSE OkVal(JObj([key |-> parent.f["key"],
                     summary |-> Get(parent.f["fields"], "summary", JStr(<<>>))]))

\* "if 'parent' in fields and fields['parent']", else None
ParentOf(fields) ==
    IF "parent" \in DOMAIN fields.f /\ Truthy(fields.f["parent"])
    THEN ParentRef(fields.f["parent"])
    ELSE OkVal(JNull)

ProcessIssue(issue) ==
    IF issue.k # "obj" THEN Raise("TypeError")
    ELSE IF "fields" \notin DOMAIN issue.f THEN Raise("KeyError")
    ELSE IF "key" \notin DOMAIN issue.f THEN Raise("KeyError")
    ELSE IF issue.f["fields"].k # "obj" THEN Raise("AttributeError")
    ELSE IF Get(issue.f["fields"], "status", JObj(EmptyMap)).k # "obj"
    THEN Raise("AttributeError")
    ELSE LET fields == issue.f["fields"]
         IN Then(ConvertAdfToMarkdown(Get(fields, "description", JNull)),
                 LAMBDA description :
                     Then(ParentOf(fields),
                          LAMBDA parent :
                              OkVal(JObj(
                                  [key |-> issue.f["key"],
                                   summary |-> Get(fields, "summary", JStr(<<>>)),
                                   status |->
                                       Get(Get(fields, "status", JObj(EmptyMap)),
                                           "name", JStr(<<>>)),
                                   description |-> JStr(description.s),
                                   parent |-> parent.v]))))

\* "for issue in issues: all_issues.append(self._process_issue(issue))"
RECURSIVE ProcessAll(_, _)
ProcessAll(raw, i) ==
    IF i > Len(raw) THEN OkSeq(<<>>)
    ELSE ConsVal(ProcessIssue(raw[i]), ProcessAll(raw, i + 1))

----------------------------------------------------------------------------
(* JiraClient._fetch_issues_by_jql *)

\* "if page_count >= 1000"
MaxPages == 1000
\* max_results = 100
PageSize == 100

\* jql of get_all_issues / get_issues_in_key_range, kept structured
Jql(project_key, use_range, key_from, key_to) ==
    IF use_range
    THEN [project |-> project_key, from |-> key_from, to |-> key_to,
          order |-> "key ASC"]
    ELSE [project |-> project_key, order |-> "key ASC"]

FieldList == <<"summary", "description", "status", "parent">>

\* Faulty variant: the cursor is never sent.
PayloadWithoutCursor(query, token) ==
    [jql |-> query, maxResults |-> PageSize, fields |-> FieldList]

\* The payload of one search request.
Payload(query, token) ==
    IF Truthy(token)
    THEN [jql |-> query, maxResults |-> PageSize, fields |-> FieldList,
          nextPageToken |-> token]
    ELSE [jql |-> query, maxResults |-> PageSize, fields |-> FieldList]

\* requests.Response.raise_for_status
RaisesForStatus(status) == status >= 400 /\ status < 600

\* Faulty variant: the 404 test left out, so a 404 reaches raise_for_status.
EndpointMissingSkipped(status) == FALSE

\* "if response.status_code == 404"
EndpointMissing(status) == status = 404

\* Faulty variant: the page is put in front of what was accumulated.
AccumulateInFront(acc, page) == page \o acc

\* "for issue in issues: all_issues.append(...)": the page goes to the end
Accumulate(acc, page) == acc \o page

\* Faulty variant: a missing cursor does not end the loop.
NoCursorIgnored(token) == FALSE

\* "if not next_page_token: break"
NoCursor(token) == ~Truthy(token)

\* Faulty variant: the is-last flag is not looked at.
IsLastIgnored(data) == FALSE

\* "if data.get('isLast', False): break"
IsLastSet(data) == Truthy(Get(data, "isLast", JBool(FALSE)))

\* Faulty variants: the cap tested one page late, and not tested at all.
PageCapOnePageLate(count) == count > MaxPages
PageCapNever(count) == FALSE

\* "if page_count >= 1000: break"
PageCapReached(count) == count >= MaxPages

\* The raw records a response delivers: data.get('issues', []) when the
\* response is read as a page and holds any.
PageRecords(response) ==
    IF EndpointMissing(response.status) \/ RaisesForStatus(response.status)
    THEN <<>>
    ELSE LET issues == Get(response.data, "issues", JList(<<>>))
         IN IF Truthy(issues) /\ Iter(issues).ok THEN Iter(issues).xs ELSE <<>>

\* Lines 288-308 of one pass: the page's issues are processed and appended,
\* then the three stop conditions are tried in the code's order.
AfterPage(acc, token, count, data, processed) ==
    IF ~processed.ok
    THEN [kind |-> "raise", e |-> processed.e, acc |-> acc, token |-> token]
    ELSE IF NoCursor(Get(data, "nextPageToken", JNull))
    THEN [kind |-> "return", token |-> Get(data, "nextPageToken", JNull),
          acc |-> Accumulate(acc, processed.xs)]
    ELSE IF IsLastSet(data)
    THEN [kind |-> "return", token |-> Get(data, "nextPageToken", JNull),
          acc |-> Accumulate(acc, processed.xs)]
    ELSE IF PageCapReached(count)
    THEN [kind |-> "return", token |-> Get(data, "nextPageToken", JNull),
          acc |-> Accumulate(acc, processed.xs)]
    ELSE [kind |-> "continue", token |-> Get(data, "nextPageToken", JNull),
          acc |-> Accumulate(acc, processed.xs)]

\* One pass of the while loop after the response arrived (lines 266-308):
\* what the loop does next, with all_issues and next_page_token after it.
FetchStep(acc, token, count, response) ==
    IF EndpointMissing(response.status)
    THEN [kind |-> "raise", e |-> "EndpointNotFound", acc |-> acc, token |-> token]
    ELSE IF RaisesForStatus(response.status)
    THEN [kind |-> "raise", e |-> "HTTPError", acc |-> acc, token |-> token]
    ELSE IF ~Truthy(Get(response.data, "issues", JList(<<>>)))
    THEN [kind |-> "return", acc |-> acc, token |-> token]
    ELSE AfterPage(acc, token, count, response.data,
                   Then(Iter(Get(response.data, "issues", JList(<<>>))),
                        LAMBDA it : ProcessAll(it.xs, 1)))

----------------------------------------------------------------------------
(* The simulated Jira endpoints *)

\* How many pages the scripted search endpoint answers freely before it
\* runs out of pages (every later answer carries no cursor).
MaxScriptedPages == 2
\* The same for the scripted project list (later answers are not isLast=false).
MaxProjectPages == 2

K_DEMO1 == <<"D", "E", "M", "O", "-", "1">>
K_DEMO2 == <<"D", "E", "M", "O", "-", "2">>
S_FixBug == <<"F", "i", "x", " ", "b", "u", "g">>
S_AddFeature == <<"A", "d", "d", " ", "f", "e", "a", "t", "u", "r", "e">>
S_Done == <<"D", "o", "n", "e">>
S_Open == <<"O", "p", "e", "n">>
S_NeedsDesign == <<"N", "e", "e", "d", "s", " ", "d", "e", "s", "i", "g", "n">>
S_DEMO == <<"D", "E", "M", "O">>
S_Demo == <<"D", "e", "m", "o">>
S_OPS == <<"O", "P", "S">>
S_Ops == <<"O", "p", "s">>
TokenA == <<"t", "1">>
TokenB == <<"t", "2">>

TextNode(s) == JObj([type |-> JStr(T_text), text |-> JStr(s)])
Node(t, children) == JObj([type |-> JStr(t), content |-> JList(children)])

\* Raw records as the search endpoint sends them.
Raw1 ==
    JObj([key |-> JStr(K_DEMO1),
          fields |-> JObj([summary |-> JStr(S_FixBug),
                           status |-> JObj([name |-> JStr(S_Done)])])])
Raw2 ==
    JObj([key |-> JStr(K_DEMO2),
          fields |-> JObj(
              [summary |-> JStr(S_AddFeature),
               status |-> JObj([name |-> JStr(S_Open)]),
               description |->
                   Node(T_doc, <<Node(T_paragraph, <<TextNode(S_NeedsDesign)>>)>>),
               parent |-> JObj([key |-> JStr(K_DEMO1),
                                fields |-> JObj([summary |-> JStr(S_FixBug)])])])])
\* A record without its fields map: _process_issue raises on it.
RawBad == JObj([key |-> JStr(K_DEMO1)])

Absent == [k |-> "absent"]
Opt(key, v) == IF v = Absent THEN EmptyMap ELSE (key :> v)

SearchData(issues, token, last) ==
    JObj(Opt("issues", issues) @@ Opt("nextPageToken", token)
         @@ Opt("isLast", last) @@ ("total" :> JNum(2)))

SearchOk(issues, token, last) ==
    [status |-> 200, data |-> SearchData(issues, token, last)]
\* An error answer carries Jira's error body, not a page.
HttpError(status) ==
    [status |-> status, data |-> JObj([errorMessages |-> JList(<<>>)])]

ScriptedIssues ==
    {Absent, JList(<<>>), JList(<<Raw1>>), JList(<<Raw1, Raw2>>),
     JList(<<RawBad>>)}
ScriptedTokens == {Absent, JStr(<<>>), JStr(TokenA), JStr(TokenB)}
ScriptedLast == {Absent, JBool(FALSE), JBool(TRUE)}
ErrorStatuses == {401, 404, 500}

\* A status outside 200 that raise_for_status lets through (it raises from 400
\* to 599 only), sent with a body that reads as a page.
MultipleChoices ==
    {[status |-> 300, data |-> SearchData(JList(<<Raw1>>), t, Absent)] :
         t \in {Absent, JStr(TokenA)}}

ScriptedResponses ==
    {SearchOk(i, t, l) : i \in ScriptedIssues, t \in ScriptedTokens,
                         l \in ScriptedLast}
    \cup {HttpError(st) : st \in ErrorStatuses}
    \cup MultipleChoices

\* The server of the safety-cap scenario: one record and a cursor, always.
EndlessReply == SearchOk(JList(<<Raw1>>), JStr(TokenA), Absent)

\* What a server that may turn at any page answers instead.
HostileStops ==
    {HttpError(404), HttpError(500),
     SearchOk(JList(<<>>), JStr(TokenA), Absent),
     SearchOk(JList(<<Raw1>>), Absent, JBool(FALSE)),
     SearchOk(JList(<<Raw1>>), JStr(TokenB), JBool(TRUE))}

\* The answers the search endpoint may give to request number n.
SearchResponses(srv, n) ==
    CASE srv = "scripted" ->
             IF n <= MaxScriptedPages THEN ScriptedResponses
             ELSE {r \in ScriptedResponses :
                       "nextPageToken" \notin DOMAIN r.data.f}
      [] srv = "endless" -> {EndlessReply}
      [] srv = "hostile" -> {EndlessReply} \cup HostileStops

\* GET /project/{key}
ProjectData(archived) ==
    JObj(Opt("archived", archived) @@ ("name" :> JStr(S_Demo)))
ProjectResponses ==
    {[status |-> 200, data |-> ProjectData(a)] :
         a \in {Absent, JBool(FALSE), JBool(TRUE)}}
    \cup {HttpError(404), HttpError(500)}

\* GET /project/search
P1 == JObj([key |-> JStr(S_DEMO), name |-> JStr(S_Demo)])
P2 == JObj([key |-> JStr(S_OPS), name |-> JStr(S_Ops)])
ProjectPageData(values, last) ==
    JObj(Opt("values", values) @@ Opt("isLast", last))
ProjectListResponses ==
    {[status |-> 200, data |-> ProjectPageData(v, l)] :
         v \in {Absent, JList(<<>>), JList(<<P1>>), JList(<<P1, P2>>)},
         l \in {Absent, JBool(FALSE), JBool(TRUE)}}
    \cup {HttpError(500)}
ProjectListAnswers(n) ==
    IF n <= MaxProjectPages THEN ProjectListResponses
    ELSE {r \in ProjectListResponses :
              r.status # 200 \/ Get(r.data, "isLast", Absent) # JBool(FALSE)}

\* GET /myself
AuthStatuses == {200, 401, 500}

----------------------------------------------------------------------------
(* State shared by the specifications *)

AllCreds == {"JIRA_EMAIL", "JIRA_API_TOKEN", "JIRA_DOMAIN"}

NoJql == [project |-> <<>>, order |-> "none"]
NoCalls == [myself |-> 0, project_search |-> 0, project |-> 0, count |-> 0,
            search |-> 0]
NoHttp == [status |-> 0, error |-> "none", body |-> JNull]
NoResponse == [status |-> 0, data |-> JNull]
NoPayload == [jql |-> NoJql, maxResults |-> 0, fields |-> <<>>]
NoResult == Raise("none")

FetchIdle ==
    /\ jql = NoJql
    /\ all_issues = <<>>
    /\ next_page_token = JNull
    /\ page_count = 0
    /\ last_payload = NoPayload
    /\ last_response = NoResponse
    /\ received = <<>>
    /\ fetch_result = NoResult

AppIdle ==
    /\ route = "none"
    /\ http = NoHttp
    /\ project = NoResponse
    /\ jira_calls = NoCalls
    /\ myself = NoResponse
    /\ all_projects = <<>>
    /\ start_at = 0
    /\ project_pages = <<>>

ConvIdle ==
    /\ conv_in = JNull
    /\ conv_call = "none"
    /\ conv_out = NoResult

\* Lines 244-248: the locals of a fresh call.
FetchBegin(query) ==
    /\ jql' = query
    /\ all_issues' = <<>>
    /\ next_page_token' = JNull
    /\ page_count' = 0
    /\ last_payload' = NoPayload
    /\ last_response' = NoResponse
    /\ received' = <<>>
    /\ fetch_result' = NoResult

\* The locals are gone once the caller has the result.
FetchEnd ==
    /\ jql' = NoJql
    /\ all_issues' = <<>>
    /\ next_page_token' = JNull
    /\ page_count' = 0
    /\ last_payload' = NoPayload
    /\ last_response' = NoResponse
    /\ received' = <<>>
    /\ fetch_result' = NoResult

----------------------------------------------------------------------------
(* _fetch_issues_by_jql, one pass of its loop per step *)

\* get_all_issues(project_key) or get_issues_in_key_range(project_key, 1, 2),
\* called directly.
CallFetch ==
    /\ pc = "idle"
    /\ \E use_range \in BOOLEAN : FetchBegin(Jql(S_DEMO, use_range, 1, 2))
    /\ pc' = "fetch"
    /\ UNCHANGED <<server, appVars, convVars>>

\* Where the pass leaves the call: in the loop, returned (line 311) or raised.
LoopOutcome(step) ==
    /\ all_issues' = step.acc
    /\ next_page_token' = step.token
    /\ pc' = CASE step.kind = "continue" -> "fetch"
               [] step.kind = "return" -> "fetch_returned"
               [] step.kind = "raise" -> "fetch_raised"
    /\ fetch_result' = CASE step.kind = "continue" -> fetch_result
                         [] step.kind = "return" -> OkSeq(step.acc)
                         [] step.kind = "raise" -> Raise(step.e)

\* Lines 250-311: build the payload, post it, read the answer, decide.
SearchPage ==
    /\ pc = "fetch"
    /\ \E response \in SearchResponses(server, page_count + 1) :
           /\ page_count' = page_count + 1
           /\ last_payload' = Payload(jql, next_page_token)
           /\ jira_calls' = [jira_calls EXCEPT !.search = @ + 1]
           /\ last_response' = response
           /\ received' = received \o PageRecords(response)
           /\ LoopOutcome(FetchStep(all_issues, next_page_token,
                                    page_count + 1, response))
    /\ UNCHANGED <<jql, server, creds, authenticated, route, http, project,
                   myself, all_projects, start_at, project_pages, convVars>>

InitFetch ==
    /\ pc = "idle"
    /\ server = "scripted"
    /\ creds = AllCreds
    /\ authenticated = FALSE
    /\ AppIdle /\ FetchIdle /\ ConvIdle

NextFetch == CallFetch \/ SearchPage

SpecFetch == InitFetch /\ [][NextFetch]_vars

\* A call that has run for long: the locals after LongRun passes in which the
\* server sent one record and a cursor each time.
LongRun == 997

LateInRun ==
    /\ jql = Jql(S_DEMO, FALSE, 1, 2)
    /\ all_issues = [i \in 1..LongRun |-> ProcessIssue(Raw1).v]
    /\ next_page_token = JStr(TokenA)
    /\ page_count = LongRun
    /\ last_payload = Payload(Jql(S_DEMO, FALSE, 1, 2), JStr(TokenA))
    /\ last_response = EndlessReply
    /\ received = [i \in 1..LongRun |-> Raw1]
    /\ fetch_result = NoResult
    /\ route = "none"
    /\ http = NoHttp
    /\ project = NoResponse
    /\ jira_calls = [NoCalls EXCEPT !.search = LongRun]
    /\ myself = NoResponse
    /\ all_projects = <<>>
    /\ start_at = 0
    /\ project_pages = <<>>

\* The call is followed from its start, and from late in a long run.
InitCap ==
    /\ server \in {"endless", "hostile"}
    /\ creds = AllCreds
    /\ authenticated = FALSE
    /\ ConvIdle
    /\ \/ pc = "idle" /\ AppIdle /\ FetchIdle
       \/ pc = "fetch" /\ LateInRun

SpecCap == InitCap /\ [][NextFetch]_vars

----------------------------------------------------------------------------
(* app.py: the routes *)

\* Faulty variant: a client is built whatever the credentials.
GetJiraClientUnchecked == OkVal(JNull)

\* get_jira_client: a client, or ValueError when a credential is missing
GetJiraClient == IF creds = AllCreds THEN OkVal(JNull) ELSE Raise("ValueError")

\* "if not session.get('authenticated')"
NotAuthenticated == ~authenticated

\* Faulty variant: any answer of GET /myself counts as a connection.
TestConnectionAnyStatus(status) == OkVal(JBool(TRUE))

\* JiraClient.test_connection: True, or an exception
TestConnection(status) == IF status # 200 THEN Raise("Exception") ELSE OkVal(JBool(TRUE))

\* Faulty variant: the archived flag is not looked at.
GetProjectNameOfArchived(lookup) ==
    IF lookup.status = 404 THEN Raise("ProjectNotFound")
    ELSE IF RaisesForStatus(lookup.status) THEN Raise("HTTPError")
    ELSE OkVal(lookup.data.f["name"])

\* JiraClient.get_project_name on the lookup's answer
GetProjectName(lookup) ==
    IF lookup.status = 404 THEN Raise("ProjectNotFound")
    ELSE IF RaisesForStatus(lookup.status) THEN Raise("HTTPError")
    ELSE IF Truthy(Get(lookup.data, "archived", JBool(FALSE)))
    THEN Raise("ProjectArchived")
    ELSE OkVal(lookup.data.f["name"])

\* JiraClient.get_issue_count on the count query's answer
CountResponses ==
    {[status |-> 200, data |-> JObj([total |-> JNum(2)])],
     [status |-> 200, data |-> JObj(EmptyMap)],
     HttpError(500)}
GetIssueCount(response) ==
    IF RaisesForStatus(response.status) THEN Raise("HTTPError")
    ELSE OkVal(Get(response.data, "total", JNum(0)))

\* max_results = 50
ProjectPageSize == 50

\* {'key': project['key'], 'name': project['name']} of every project
ProjectEntries(values) ==
    [i \in 1..Len(values) |->
        JObj([key |-> values[i].f["key"], name |-> values[i].f["name"]])]

\* One pass of the loop of get_all_projects after the answer arrived.
ProjectsStep(acc, start, response) ==
    IF RaisesForStatus(response.status)
    THEN [kind |-> "raise", e |-> "HTTPError", acc |-> acc, start |-> start]
    ELSE IF ~Truthy(Get(response.data, "values", JList(<<>>)))
    THEN [kind |-> "return", acc |-> acc, start |-> start]
    ELSE IF Truthy(Get(response.data, "isLast", JBool(TRUE)))
    THEN [kind |-> "return", start |-> start,
          acc |-> acc \o ProjectEntries(response.data.f["values"].xs)]
    ELSE [kind |-> "continue", start |-> start + ProjectPageSize,
          acc |-> acc \o ProjectEntries(response.data.f["values"].xs)]

\* jsonify(...), status: the route is done
Reply(r, status, error, body) ==
    /\ route' = r
    /\ http' = [status |-> status, error |-> error, body |-> body]
    /\ pc' = "idle"

\* The route runs on: no response yet.
Pending(r, at) ==
    /\ route' = r
    /\ http' = NoHttp
    /\ pc' = at

\* POST /api/authenticate
Authenticate ==
    /\ pc = "idle"
    /\ \E status \in AuthStatuses :
           IF ~GetJiraClient.ok
           THEN /\ Reply("authenticate", 400, "Missing required environment variables", JNull)
                /\ jira_calls' = NoCalls
                /\ myself' = NoResponse
                /\ UNCHANGED authenticated
           ELSE IF ~TestConnection(status).ok
           THEN /\ Reply("authenticate", 401, "Authentication failed", JNull)
                /\ jira_calls' = [NoCalls EXCEPT !.myself = 1]
                /\ myself' = [status |-> status, data |-> JNull]
                /\ UNCHANGED authenticated
           ELSE /\ Reply("authenticate", 200, "none", JNull)
                /\ jira_calls' = [NoCalls EXCEPT !.myself = 1]
                /\ myself' = [status |-> status, data |-> JNull]
                /\ authenticated' = TRUE
    /\ project' = NoResponse
    /\ project_pages' = <<>>
    /\ UNCHANGED <<creds, all_projects, start_at, fetchVars, convVars>>

\* GET /api/projects, up to the first page request
GetProjects ==
    /\ pc = "idle"
    /\ IF NotAuthenticated
       THEN Reply("projects", 401, "Not authenticated", JNull)
       ELSE IF ~GetJiraClient.ok
       THEN Reply("projects", 500, "Missing required environment variables", JNull)
       ELSE Pending("projects", "projects")
    /\ jira_calls' = NoCalls
    /\ myself' = NoResponse
    /\ all_projects' = <<>>
    /\ start_at' = 0
    /\ project_pages' = <<>>
    /\ project' = NoResponse
    /\ UNCHANGED <<creds, authenticated, fetchVars, convVars>>

\* How a pass of get_all_projects leaves the route.
ProjectsOutcome(step) ==
    /\ CASE step.kind = "continue" ->
                /\ Pending("projects", "projects")
                /\ all_projects' = step.acc
                /\ start_at' = step.start
         [] step.kind = "return" ->
                /\ Reply("projects", 200, "none", JList(step.acc))
                /\ all_projects' = <<>>
                /\ start_at' = 0
         [] step.kind = "raise" ->
                /\ Reply("projects", 500, step.e, JNull)
                /\ all_projects' = <<>>
                /\ start_at' = 0

\* Lines 89-115, one pass: the request with startAt = start_at, the answer,
\* the decision.
ProjectsPass(answers) ==
    /\ pc = "projects"
    /\ \E response \in answers :
           /\ project_pages' = Append(project_pages, response)
           /\ ProjectsOutcome(ProjectsStep(all_projects, start_at, response))
    /\ jira_calls' = [jira_calls EXCEPT !.project_search = @ + 1]
    /\ UNCHANGED <<creds, authenticated, project, myself, fetchVars, convVars>>

\* get_all_projects, one pass of its loop per step
ProjectsPage == ProjectsPass(ProjectListAnswers(jira_calls.project_search + 1))

\* GET /api/projects/<key>/stats
GetProjectStats ==
    /\ pc = "idle"
    /\ \E response \in CountResponses :
           IF NotAuthenticated
           THEN /\ Reply("stats", 401, "Not authenticated", JNull)
                /\ jira_calls' = NoCalls
           ELSE IF ~GetJiraClient.ok
           THEN /\ Reply("stats", 500, "Missing required environment variables", JNull)
                /\ jira_calls' = NoCalls
           ELSE IF ~GetIssueCount(response).ok
           THEN /\ Reply("stats", 500, "HTTPError", JNull)
                /\ jira_calls' = [NoCalls EXCEPT !.count = 1]
           ELSE /\ Reply("stats", 200, "none", GetIssueCount(response).v)
                /\ jira_calls' = [NoCalls EXCEPT !.count = 1]
    /\ project' = NoResponse
    /\ myself' = NoResponse
    /\ project_pages' = <<>>
    /\ UNCHANGED <<creds, authenticated, all_projects, start_at, fetchVars,
                   convVars>>

\* Lines 277-287: the project lookup, then the call of get_all_issues or
\* get_issues_in_key_range.
ExportLookup(name, lookup, query) ==
    /\ jira_calls' = [NoCalls EXCEPT !.project = 1]
    /\ project' = lookup
    /\ IF ~name.ok
       THEN /\ Reply("export", 500, name.e, JNull)
            /\ UNCHANGED fetchVars
       ELSE /\ Pending("export", "fetch")
            /\ FetchBegin(query)
            /\ UNCHANGED server

\* POST /api/export, up to the first search request
ExportProject ==
    /\ pc = "idle"
    /\ \E project_key \in {JNull, JStr(S_DEMO)},
          key_from \in {JNull, JNum(1)}, key_to \in {JNull, JNum(2)},
          lookup \in ProjectResponses :
           IF NotAuthenticated
           THEN /\ Reply("export", 401, "Not authenticated", JNull)
                /\ jira_calls' = NoCalls
                /\ project' = NoResponse
                /\ UNCHANGED fetchVars
           ELSE IF ~Truthy(project_key)
           THEN /\ Reply("export", 400, "Project key is required", JNull)
                /\ jira_calls' = NoCalls
                /\ project' = NoResponse
                /\ UNCHANGED fetchVars
           ELSE IF ~GetJiraClient.ok
           THEN /\ Reply("export", 500, "Missing required environment variables", JNull)
                /\ jira_calls' = NoCalls
                /\ project' = NoResponse
                /\ UNCHANGED fetchVars
           ELSE ExportLookup(GetProjectName(lookup), lookup,
                             Jql(project_key.s,
                                 key_from # JNull /\ key_to # JNull,
                                 IF key_from # JNull THEN key_from.n ELSE 0,
                                 IF key_to # JNull THEN key_to.n ELSE 0))
    /\ myself' = NoResponse
    /\ project_pages' = <<>>
    /\ UNCHANGED <<creds, authenticated, all_projects, start_at, convVars>>

\* jira-<key>.md, or jira-<key>-<from>-<to>.md for a key range
Filename(query) ==
    IF "from" \in DOMAIN query
    THEN <<"jira", query.project, query.from, query.to, "md">>
    ELSE <<"jira", query.project, "md">>

\* Lines 289-308: the issues are back (or the fetch raised): send the file.
ExportRespond ==
    /\ pc \in {"fetch_returned", "fetch_raised"}
    /\ route = "export"
    /\ IF fetch_result.ok
       THEN Reply("export", 200, "none",
                  [k |-> "file", name |-> Filename(jql),
                   project_name |-> project.data.f["name"],
                   issues |-> fetch_result.xs])
       ELSE Reply("export", 500, fetch_result.e, JNull)
    /\ FetchEnd
    /\ UNCHANGED <<server, creds, authenticated, project, jira_calls, myself,
                   all_projects, start_at, project_pages, convVars>>

\* A browser session against the running app.  The session cookie is signed
\* with FLASK_SECRET_KEY (app.py 31-43) and outlives the process, so a session
\* may arrive already authenticated.
Init ==
    /\ pc = "idle"
    /\ server = "scripted"
    /\ creds \in SUBSET AllCreds
    /\ authenticated \in BOOLEAN
    /\ AppIdle /\ FetchIdle /\ ConvIdle

Next ==
    \/ Authenticate
    \/ GetProjects
    \/ ProjectsPage
    \/ GetProjectStats
    \/ ExportProject
    \/ SearchPage
    \/ ExportRespond

Spec == Init /\ [][Next]_vars

----------------------------------------------------------------------------
(* get_all_projects against a project endpoint that answers as it likes *)

\* The requests of one call that are followed.
MaxProjectRequests == 5

\* One pass, the endpoint free to give any answer to any request.
ProjectsPageAnyServer ==
    /\ jira_calls.project_search < MaxProjectRequests
    /\ ProjectsPass(ProjectListResponses)

InitProjects ==
    /\ pc = "idle"
    /\ server = "scripted"
    /\ creds = AllCreds
    /\ authenticated = TRUE
    /\ AppIdle /\ FetchIdle /\ ConvIdle

NextProjects == GetProjects \/ ProjectsPageAnyServer

\* A pass that can be made is made: the loop has no wait in it.
SpecProjects ==
    InitProjects /\ [][NextProjects]_vars /\ WF_vars(ProjectsPageAnyServer)

----------------------------------------------------------------------------
(* The converter on its own: documents handed to _process_adf_node and      *)
(* _convert_adf_to_markdown                                                 *)

\* The longest list of children, marks, rows or cells in a generated node.
MaxChildren == 2

S_X == <<"X">>
S_hi == <<"h", "i">>
S_py == <<"p", "y">>
S_url == <<"u", ":", "/", "a">>
S_two_lines == <<"a", "\n", "b">>
\* Types the converter has no branch for.
T_panel == <<"p", "a", "n", "e", "l">>
T_mediaGroup == <<"m", "e", "d", "i", "a", "G", "r", "o", "u", "p">>

SeqsUpTo(S, n) == UNION {[1..m -> S] : m \in 0..n}

\* A node from its parts; a part that is Absent is left out of the dict.
MkNode(t, c, a) == JObj(Opt("type", t) @@ Opt("content", c) @@ Opt("attrs", a))
MkText(t, ms) ==
    JObj(("type" :> JStr(T_text)) @@ Opt("text", t) @@ Opt("marks", ms))
Mark(t) == JObj([type |-> JStr(t)])
Link(a) == JObj(("type" :> JStr(M_link)) @@ Opt("attrs", a))

\* Values that are no dict.
NonObjects == {JNull, JStr(S_X), JNum(7), JBool(TRUE)}

\* Children a generated node may hold.
Kids ==
    {TextNode(S_X),
     Node(T_paragraph, <<TextNode(S_two_lines)>>),
     Node(T_listItem, <<Node(T_paragraph, <<TextNode(S_X)>>)>>),
     Node(T_panel, <<TextNode(S_hi)>>),
     JNull,
     JStr(S_X)}

ContentShapes ==
    {Absent, JNull, JStr(S_hi), JNum(7), JObj([a |-> JNull])}
    \cup {JList(xs) : xs \in SeqsUpTo(Kids, MaxChildren)}

AttrShapes ==
    {Absent, JNull, JStr(S_X), JList(<<>>),
     JObj([level |-> JNum(2), language |-> JStr(S_py), title |-> JStr(S_hi),
           text |-> JStr(S_X), url |-> JStr(S_url)]),
     JObj([level |-> JStr(S_X), language |-> JNull, shortName |-> JStr(S_hi),
           displayName |-> JStr(S_hi), text |-> JNull])}

TypeShapes ==
    {JStr(t) : t \in KnownTypes \cup {T_panel, T_mediaGroup, <<>>}}
    \cup {Absent, JNull, JNum(7)}

\* Every type with every shape of content, and with every shape of attrs.
ShapedNodes ==
    {MkNode(t, c, Absent) : t \in TypeShapes, c \in ContentShapes}
    \cup {MkNode(t, c, a) : t \in TypeShapes, a \in AttrShapes,
                            c \in {Absent, JList(<<TextNode(S_X)>>)}}

MarkShapes ==
    {Mark(M_strong), Mark(M_em), Mark(M_code), Mark(M_strike), Mark(T_panel),
     Link(JObj([href |-> JStr(S_url)])), Link(Absent), Link(JNull),
     JNull, JStr(S_X)}

TextShapes ==
    {MkText(t, ms) :
         t \in {Absent, JNull, JNum(7), JStr(S_hi)},
         ms \in {Absent, JNull, JStr(S_hi), JNum(7)}
                \cup {JList(xs) : xs \in SeqsUpTo(MarkShapes, MaxChildren)}}

CellX == Node(T_tableCell, <<Node(T_paragraph, <<TextNode(S_X)>>)>>)
CellHi == Node(T_tableHeader, <<Node(T_paragraph, <<TextNode(S_hi)>>)>>)
CellLines ==
    Node(T_tableCell, <<Node(T_paragraph, <<TextNode(S_two_lines)>>),
                        Node(T_paragraph, <<TextNode(S_X)>>)>>)

RowShapes ==
    {Node(T_tableRow, <<>>),
     Node(T_tableRow, <<CellHi>>),
     Node(T_tableRow, <<CellHi, CellX>>),
     Node(T_tableRow, <<CellX, CellLines, CellHi>>),
     Node(T_tableRow, <<CellX, JNull>>),
     Node(T_tableRow, <<JStr(S_X)>>),
     Node(T_tableRow, <<MkNode(JStr(T_tableCell), JNull, Absent)>>),
     MkNode(JStr(T_tableRow), JNull, Absent),
     JNull,
     JStr(S_X)}

TableShapes ==
    {Node(T_table, rs) : rs \in SeqsUpTo(RowShapes, MaxChildren)}

\* List items: a paragraph alone, and a paragraph above a nested list.
ListItemOf(t) == Node(T_listItem, <<Node(T_paragraph, <<TextNode(t)>>)>>)
ItemHolding(t, list) ==
    Node(T_listItem, <<Node(T_paragraph, <<TextNode(t)>>), list>>)
InnerLists ==
    {Node(ty, <<ListItemOf(S_hi), ListItemOf(S_py)>>) :
         ty \in {T_bulletList, T_orderedList}}
ItemShapes ==
    {ListItemOf(S_X), ListItemOf(S_hi)}
    \cup {ItemHolding(S_X, l) : l \in InnerLists}
ListShapes ==
    {Node(ty, xs) : ty \in {T_bulletList, T_orderedList},
                    xs \in SeqsUpTo(ItemShapes, MaxChildren)}

\* A document around a block, as the description field holds it.
Docs == {Node(T_doc, <<n>>) : n \in TableShapes \cup TextShapes}

ConvInputs ==
    NonObjects \cup {JList(<<TextNode(S_X)>>)} \cup ShapedNodes \cup TextShapes
    \cup TableShapes \cup ListShapes \cup Docs

\* self._process_adf_node(node): level 0, no list index
ProcessNode ==
    /\ pc = "idle"
    /\ conv_call = "none"
    /\ conv_call' = "process"
    /\ conv_out' = ProcessAdfNode(conv_in, 0, NoIndex)
    /\ UNCHANGED <<pc, conv_in, appVars, fetchVars>>

\* self._convert_adf_to_markdown(adf_content)
ConvertDescription ==
    /\ pc = "idle"
    /\ conv_call = "none"
    /\ conv_call' = "convert"
    /\ conv_out' = ConvertAdfToMarkdown(conv_in)
    /\ UNCHANGED <<pc, conv_in, appVars, fetchVars>>

\* Descriptions a raw record holds: none, null, a document, and a code block
\* whose child is a bare string.
RawDescriptions ==
    {Absent, JNull,
     Node(T_doc, <<Node(T_paragraph, <<TextNode(S_NeedsDesign)>>)>>),
     Node(T_codeBlock, <<JStr(S_X)>>)}

RawStatuses == {Absent, JNull, JObj(EmptyMap), JObj([name |-> JStr(S_Done)])}

RawParents ==
    {Absent, JNull,
     JObj([key |-> JStr(K_DEMO2)]),
     JObj([key |-> JStr(K_DEMO2), fields |-> JObj(EmptyMap)]),
     JObj([key |-> JStr(K_DEMO2),
           fields |-> JObj([summary |-> JStr(S_AddFeature)])])}

\* Raw records with a key and a fields map, each field present or not.
RawIssues ==
    {JObj([key |-> JStr(K_DEMO1),
           fields |-> JObj(Opt("summary", su) @@ Opt("status", st)
                           @@ Opt("description", de) @@ Opt("parent", pa))]) :
         su \in {Absent, JStr(S_FixBug)}, st \in RawStatuses,
         de \in RawDescriptions, pa \in RawParents}

\* self._process_issue(issue)
ProcessOneIssue ==
    /\ pc = "idle"
    /\ conv_call = "none"
    /\ conv_call' = "issue"
    /\ conv_out' = ProcessIssue(conv_in)
    /\ UNCHANGED <<pc, conv_in, appVars, fetchVars>>

InitConv ==
    /\ pc = "idle"
    /\ server = "scripted"
    /\ creds = AllCreds
    /\ authenticated = FALSE
    /\ AppIdle /\ FetchIdle
    /\ conv_in \in ConvInputs \cup RawIssues \cup {RawBad}
    /\ conv_call = "none"
    /\ conv_out = NoResult

NextConv == ProcessNode \/ ConvertDescription \/ ProcessOneIssue

SpecConv == InitConv /\ [][NextConv]_vars

----------------------------------------------------------------------------
(* Properties of _fetch_issues_by_jql *)

\* xs ends with the items of p
EndsWith(xs, p) ==
    /\ Len(p) <= Len(xs)
    /\ \A i \in 1..Len(p) : xs[Len(xs) - Len(p) + i] = p[i]

Returned == pc = "fetch_returned"
Raised == pc = "fetch_raised"
InLoop == pc = "fetch"

\* A successful answer with zero issues, or with no cursor.
EndOfResults(r) ==
    /\ r.status = 200
    /\ \/ ~Truthy(Get(r.data, "issues", JList(<<>>)))
       \/ Get(r.data, "nextPageToken", JNull) \in {JNull, JStr(<<>>)}

\* C1: once a successful answer holds zero issues or no nextPageToken, the
\* loop is left and no further search request is sent, whatever isLast says;
\* when the call returns, its list ends with the normalized issues of that
\* last page.
C1_LoopEndsOnEmptyPageOrMissingCursor ==
    /\ [](EndOfResults(last_response) =>
            /\ ~InLoop
            /\ Returned =>
                   EndsWith(fetch_result.xs,
                            ProcessAll(PageRecords(last_response), 1).xs))
    /\ [][EndOfResults(last_response) =>
              jira_calls'.search = jira_calls.search]_vars

\* A page of two issues without cursor and with isLast=false ended the call.
C1_Witness ==
    /\ Returned
    /\ last_response = SearchOk(JList(<<Raw1, Raw2>>), Absent, JBool(FALSE))
    /\ Len(fetch_result.xs) >= 2

\* C2: the list a normal return hands back is the normalized form of every raw
\* record received, page after page in request order and in page order: same
\* length, same positions, nothing dropped, nothing twice.
C2_ReturnsEveryRecordOnceInOrder ==
    Returned =>
        /\ fetch_result.ok
        /\ Len(fetch_result.xs) = Len(received)
        /\ \A i \in 1..Len(received) :
               OkVal(fetch_result.xs[i]) = ProcessIssue(received[i])

\* A cursor came with the first page and none with the second.
C2_Witness ==
    /\ Returned
    /\ page_count = 2
    /\ "nextPageToken" \in DOMAIN last_payload
    /\ "nextPageToken" \notin DOMAIN last_response.data.f
    /\ received = <<Raw1, Raw1, Raw2>>

\* C3: against the server that always answers 200 with one issue and a
\* cursor, the call never raises, is still in its loop below 1000 requests,
\* and returns only after exactly 1000 requests, with exactly 1000 issues.
C3_EndlessServerStopsAtThousand ==
    server = "endless" =>
        /\ ~Raised
        /\ jira_calls.search <= 1000
        /\ InLoop => jira_calls.search < 1000
        /\ Returned => /\ jira_calls.search = 1000
                       /\ Len(fetch_result.xs) = 1000

C3_Witness ==
    /\ server = "endless"
    /\ Returned
    /\ jira_calls.search = 1000
    /\ Len(fetch_result.xs) = 1000

\* The answer after which only the page cap can end the loop.
AsksForMore(r) ==
    /\ r.status = 200
    /\ Truthy(Get(r.data, "issues", JList(<<>>)))
    /\ Truthy(Get(r.data, "nextPageToken", JNull))
    /\ ~Truthy(Get(r.data, "isLast", JBool(FALSE)))

\* C4: whatever the server answers, no more than 1000 search requests are
\* sent, and the call ends: the loop is only ever in a pass below 1000, and
\* each step of it is one request that moves the pass count up by one.  A
\* call stopped by the page cap returns normally with every issue accumulated
\* so far.
C4_TerminatesWithinPageCap ==
    /\ [][InLoop => /\ page_count' = page_count + 1
                    /\ jira_calls'.search = jira_calls.search + 1]_vars
    /\ [](/\ jira_calls.search <= 1000
          /\ InLoop => page_count < 1000
          /\ (page_count = 1000 /\ AsksForMore(last_response)) =>
                 /\ Returned
                 /\ fetch_result = OkSeq(all_issues)
                 /\ Len(all_issues) = Len(received)
                 /\ \A i \in 1..Len(received) :
                        OkVal(all_issues[i]) = ProcessIssue(received[i]))

\* The server that may turn at any page asked for more 1000 times.
C4_Witness ==
    /\ server = "hostile"
    /\ page_count = 1000
    /\ AsksForMore(last_response)
    /\ Returned

\* C5: a 404 answer, to the first request or a later one, ends the call at
\* once with the endpoint-not-found error: the caller gets no list, and no
\* further request is sent.
C5_NotFoundIsFatal ==
    /\ [](last_response.status = 404 =>
            /\ Raised
            /\ fetch_result = Raise("EndpointNotFound"))
    /\ [][last_response.status = 404 =>
              jira_calls'.search = jira_calls.search]_vars

\* The second request got the 404, after a first page with issues.
C5_Witness ==
    /\ last_response.status = 404
    /\ page_count = 2
    /\ all_issues # <<>>
    /\ ~fetch_result.ok

Success(status) == status >= 200 /\ status < 300

\* C6: an answer with a non-success status other than 404 ends the call with
\* an error: it is not read as a page of issues, and no later page is asked
\* for.
C6_NonSuccessIsFatal ==
    (/\ jira_calls.search > 0
     /\ ~Success(last_response.status)
     /\ last_response.status # 404) =>
        /\ Raised
        /\ ~fetch_result.ok

----------------------------------------------------------------------------
(* Properties of the routes *)

Archived(lookup) ==
    lookup.status = 200 /\ Truthy(Get(lookup.data, "archived", JBool(FALSE)))

\* C7: in an export the project lookup comes before any issue search, and a
\* lookup answered with archived=true or with 404 fails the export with an
\* error and without a single search request.
C7_ArchivedProjectIsNotSearched ==
    route = "export" =>
        /\ jira_calls.search > 0 =>
               /\ jira_calls.project = 1
               /\ project.status = 200
               /\ ~Archived(project)
        /\ (project.status = 404 \/ Archived(project)) =>
               /\ jira_calls.search = 0
               /\ pc = "idle"
               /\ http.status = 500
               /\ http.error \in {"ProjectNotFound", "ProjectArchived"}

C7_Witness ==
    /\ route = "export"
    /\ Archived(project)
    /\ http.status = 500
    /\ http.error = "ProjectArchived"
    /\ jira_calls = [NoCalls EXCEPT !.project = 1]

MissingVariables == "Missing required environment variables"

\* How a route answers when a credential is missing: with the configuration
\* error where it asks for a client, or earlier where it never comes to ask
\* (no authenticated session, no project key).
ConfigurationError ==
    \/ route = "none"
    \/ /\ route = "authenticate"
       /\ http.status = 400 /\ http.error = MissingVariables
    \/ /\ route \in {"projects", "stats", "export"}
       /\ ~authenticated
       /\ http.status = 401 /\ http.error = "Not authenticated"
    \/ /\ route \in {"projects", "stats", "export"}
       /\ authenticated
       /\ http.status = 500 /\ http.error = MissingVariables
    \/ /\ route = "export"
       /\ authenticated
       /\ http.status = 400 /\ http.error = "Project key is required"

\* C8: with a credential missing, authenticate, the project list, the project
\* stats and the export end with the configuration error where they ask for a
\* Jira client, no request to Jira is ever sent, and no step sets the
\* session's authenticated flag.
C8_MissingCredentialFailsBeforeAnyRequest ==
    /\ [](creds # AllCreds =>
            /\ jira_calls = NoCalls
            /\ pc = "idle"
            /\ ConfigurationError)
    /\ [][creds # AllCreds => authenticated' = authenticated]_vars

\* An authenticated session asked for an export with the token missing.
C8_Witness ==
    /\ "JIRA_API_TOKEN" \notin creds
    /\ authenticated
    /\ route = "export"
    /\ http.status = 500
    /\ http.error = MissingVariables

----------------------------------------------------------------------------
(* Properties of the converter *)

\* An object whose type is none of the known ones (or is missing, or is no
\* string) and whose children are a sequence.
UnknownNode(node) ==
    /\ node.k = "obj"
    /\ Get(node, "type", JStr(<<>>)) \notin {JStr(t) : t \in KnownTypes}
    /\ Get(node, "content", JList(<<>>)).k = "list"

ChildrenOf(node) == Get(node, "content", JList(<<>>)).xs

\* C9: a node of unknown type converts, without raising, to the outputs of
\* its children one after the other and nothing else: to "X" with the single
\* child text-node "X", to the empty string without children.
C9_UnknownTypeConcatenatesChildren ==
    (conv_call = "process" /\ UnknownNode(conv_in)) =>
        /\ conv_out.ok
        /\ conv_out = ConcatNodes(ChildrenOf(conv_in), 0, 1)
        /\ ChildrenOf(conv_in) = <<TextNode(S_X)>> => conv_out = Ok(S_X)
        /\ ChildrenOf(conv_in) = <<>> => conv_out = Ok(<<>>)

\* A panel holding a paragraph and a text node was converted.
C9_Witness ==
    /\ conv_call = "process"
    /\ conv_in = Node(T_panel, <<Node(T_paragraph, <<TextNode(S_two_lines)>>),
                                 TextNode(S_X)>>)
    /\ conv_out = Ok(S_two_lines \o <<"\n", "\n">> \o S_X)

\* C10: whatever JSON value is given as a node, or sits in it as a child,
\* mark, row, cell or attribute map, conversion returns a string, the empty
\* one for a value that is no object.
C10_ConverterNeverRaises ==
    conv_call \in {"process", "convert"} =>
        /\ conv_out.ok
        /\ conv_in.k # "obj" => conv_out = Ok(<<>>)

\* The wrapper one mark puts around a string.
Wrapped(mark, s) ==
    CASE mark = Mark(M_strong) -> <<"*", "*">> \o s \o <<"*", "*">>
      [] mark = Mark(M_em) -> <<"*">> \o s \o <<"*">>
      [] mark = Mark(M_code) -> <<Backtick>> \o s \o <<Backtick>>
      [] mark = Mark(M_strike) -> <<"~", "~">> \o s \o <<"~", "~">>
      [] mark = Link(JObj([href |-> JStr(S_url)])) ->
             <<"[">> \o s \o <<"]", "(">> \o S_url \o <<")">>
      [] OTHER -> s

WellFormedMarks ==
    {Mark(M_strong), Mark(M_em), Mark(M_code), Mark(M_strike), Mark(T_panel),
     Link(JObj([href |-> JStr(S_url)]))}

\* The text node "hi" with a list of well-formed marks.
MarkedHi(node) ==
    /\ node.k = "obj"
    /\ DOMAIN node.f = {"type", "text", "marks"}
    /\ node.f["type"] = JStr(T_text)
    /\ node.f["text"] = JStr(S_hi)
    /\ node.f["marks"].k = "list"
    /\ \A i \in 1..Len(node.f["marks"].xs) :
           node.f["marks"].xs[i] \in WellFormedMarks

MarksOf(node) == node.f["marks"].xs
Front(xs) == SubSeq(xs, 1, Len(xs) - 1)

\* C11: the marks of a text node wrap the text in the order listed, the first
\* innermost and the last outermost: the output is the last mark's wrapper
\* around the output of the same node without that mark, and the bare text
\* without marks.  [strong, em] gives * **hi** *, [em, strong] gives
\* ** *hi* **, and a mark of unknown type changes nothing.
C11_MarksNestInListedOrder ==
    (conv_call = "process" /\ MarkedHi(conv_in)) =>
        /\ conv_out.ok
        /\ MarksOf(conv_in) = <<>> => conv_out = Ok(S_hi)
        /\ MarksOf(conv_in) # <<>> =>
               conv_out =
                   Then(ProcessAdfNode(
                            MkText(JStr(S_hi), JList(Front(MarksOf(conv_in)))),
                            0, NoIndex),
                        LAMBDA inner :
                            Ok(Wrapped(MarksOf(conv_in)[Len(MarksOf(conv_in))],
                                       inner.s)))
        /\ MarksOf(conv_in) = <<Mark(M_strong), Mark(M_em)>> =>
               conv_out = Ok(<<"*">> \o <<"*", "*", "h", "i", "*", "*">> \o <<"*">>)
        /\ MarksOf(conv_in) = <<Mark(M_em), Mark(M_strong)>> =>
               conv_out = Ok(<<"*", "*">> \o <<"*", "h", "i", "*">> \o <<"*", "*">>)
        /\ MarksOf(conv_in) = <<Mark(T_panel)>> => conv_out = Ok(S_hi)

\* "hi" marked [strong, code]: the code wrapper is outside the bold one.
C11_Witness ==
    /\ conv_call = "process"
    /\ conv_in = MkText(JStr(S_hi), JList(<<Mark(M_strong), Mark(M_code)>>))
    /\ conv_out = Ok(<<Backtick, "*", "*", "h", "i", "*", "*", Backtick>>)

----------------------------------------------------------------------------
(* Properties of the table converter *)

\* Rows of well-formed cells: none, one, two and three of them.
GoodRows ==
    {Node(T_tableRow, <<>>),
     Node(T_tableRow, <<CellHi>>),
     Node(T_tableRow, <<CellHi, CellX>>),
     Node(T_tableRow, <<CellX, CellLines, CellHi>>)}

\* A table of at least one row, all rows well-formed.
GoodTable(node) ==
    /\ node.k = "obj"
    /\ DOMAIN node.f = {"type", "content"}
    /\ node.f["type"] = JStr(T_table)
    /\ node.f["content"].k = "list"
    /\ node.f["content"].xs # <<>>
    /\ \A i \in 1..Len(node.f["content"].xs) :
           node.f["content"].xs[i] \in GoodRows

RowsOf(node) == node.f["content"].xs
CellsIn(row) == row.f["content"].xs

\* What a cell shows: its text on one line.
Shown(cell) ==
    CASE cell = CellX -> S_X
      [] cell = CellHi -> S_hi
      [] cell = CellLines -> <<"a", " ", "b", " ", " ", "X">>

\* The largest number of cells in a row.
Widest(rows) ==
    CHOOSE n \in {Len(CellsIn(rows[i])) : i \in 1..Len(rows)} :
        \A i \in 1..Len(rows) : Len(CellsIn(rows[i])) <= n

\* The columns of a line whose cells hold no pipe: one less than its pipes.
Columns(line) == Cardinality({i \in 1..Len(line) : line[i] = "|"}) - 1

\* The line of a row in a table of the given width: its cells in their
\* places, empty cells after them.
PaddedLine(row, width) ==
    <<"|", " ">>
    \o Join(<<" ", "|", " ">>,
            [j \in 1..width |-> IF j <= Len(CellsIn(row))
                                THEN Shown(CellsIn(row)[j]) ELSE <<>>])
    \o <<" ", "|">>

SeparatorLine(width) ==
    <<"|", " ">>
    \o Join(<<" ", "|", " ">>, [j \in 1..width |-> <<"-", "-", "-">>])
    \o <<" ", "|">>

\* The line of the output that row i of the table is on.
LineOfRow(i) == IF i = 1 THEN 1 ELSE i + 1

\* C12: every line of a converted table (header, separator, data rows) has
\* the same number of columns, the largest cell count of any row; a shorter
\* row keeps its cells in their columns and gets empty cells on the right.
\* Two cells above three cells gives three columns, the first row's third
\* cell empty.
C12_TableColumnsPaddedOnRight ==
    (conv_call = "process" /\ GoodTable(conv_in)) =>
        /\ conv_out.ok
        /\ Len(SplitLines(conv_out.s)) > Len(RowsOf(conv_in))
        /\ \A i \in 1..(Len(RowsOf(conv_in)) + 1) :
               /\ Columns(SplitLines(conv_out.s)[i])
                      = Columns(SplitLines(conv_out.s)[1])
               /\ Widest(RowsOf(conv_in)) >= 1 =>
                      Columns(SplitLines(conv_out.s)[i])
                          = Widest(RowsOf(conv_in))
        /\ \A i \in 1..Len(RowsOf(conv_in)) :
               SplitLines(conv_out.s)[LineOfRow(i)]
                   = PaddedLine(RowsOf(conv_in)[i], Widest(RowsOf(conv_in)))
        /\ RowsOf(conv_in) = <<Node(T_tableRow, <<CellHi, CellX>>),
                               Node(T_tableRow, <<CellX, CellLines, CellHi>>)>>
               => SplitLines(conv_out.s)[1]
                      = <<"|", " ", "h", "i", " ", "|", " ", "X", " ", "|",
                          " ", " ", "|">>

\* A row of two cells above a row of three.
C12_Witness ==
    /\ conv_call = "process"
    /\ conv_in = Node(T_table, <<Node(T_tableRow, <<CellHi, CellX>>),
                                 Node(T_tableRow, <<CellX, CellLines, CellHi>>)>>)
    /\ conv_out.ok
    /\ Columns(SplitLines(conv_out.s)[1]) = 3

\* C13: a table of n >= 1 rows converts to n+1 lines and two newlines: the
\* first row (header cells or not), the '---' separator, then the other rows
\* in their order; no cell adds a line, its newlines having become spaces.
C13_TableIsHeaderSeparatorRows ==
    (conv_call = "process" /\ GoodTable(conv_in)) =>
        /\ conv_out.ok
        /\ Len(SplitLines(conv_out.s)) = Len(RowsOf(conv_in)) + 3
        /\ SplitLines(conv_out.s)[Len(RowsOf(conv_in)) + 2] = <<>>
        /\ SplitLines(conv_out.s)[Len(RowsOf(conv_in)) + 3] = <<>>
        /\ \A i \in 1..(Len(RowsOf(conv_in)) + 1) :
               /\ Head(SplitLines(conv_out.s)[i]) = "|"
               /\ SplitLines(conv_out.s)[i][Len(SplitLines(conv_out.s)[i])] = "|"
        /\ SplitLines(conv_out.s)[2] = SeparatorLine(Widest(RowsOf(conv_in)))
        /\ SplitLines(conv_out.s)[1]
               = PaddedLine(RowsOf(conv_in)[1], Widest(RowsOf(conv_in)))
        /\ \A i \in 2..Len(RowsOf(conv_in)) :
               SplitLines(conv_out.s)[i + 1]
                   = PaddedLine(RowsOf(conv_in)[i], Widest(RowsOf(conv_in)))

\* The first row holds body cells, one of them with two paragraphs.
C13_Witness ==
    /\ conv_call = "process"
    /\ conv_in = Node(T_table, <<Node(T_tableRow, <<CellX, CellLines, CellHi>>),
                                 Node(T_tableRow, <<CellHi>>)>>)
    /\ conv_out.ok
    /\ SplitLines(conv_out.s)
           = << <<"|", " ", "X", " ", "|", " ", "a", " ", "b", " ", " ", "X",
                  " ", "|", " ", "h", "i", " ", "|">>,
                <<"|", " ", "-", "-", "-", " ", "|", " ", "-", "-", "-", " ",
                  "|", " ", "-", "-", "-", " ", "|">>,
                <<"|", " ", "h", "i", " ", "|", " ", " ", "|", " ", " ", "|">>,
                <<>>, <<>> >>

----------------------------------------------------------------------------
(* Properties of _process_issue *)

\* A raw record with a key and a fields map.
HasKeyAndFields(issue) ==
    /\ issue.k = "obj"
    /\ {"key", "fields"} \subseteq DOMAIN issue.f
    /\ issue.f["fields"].k = "obj"

\* The parent reference of a fields map, if it holds one.
HasParent(fields) == "parent" \in DOMAIN fields.f /\ fields.f["parent"] # JNull

\* A record whose status, description and parent have the shapes Jira sends.
AsJiraSends(issue) ==
    /\ HasKeyAndFields(issue)
    /\ Get(issue.f["fields"], "status", JObj(EmptyMap)).k = "obj"
    /\ Get(issue.f["fields"], "description", JNull)
           # Node(T_codeBlock, <<JStr(S_X)>>)
    /\ HasParent(issue.f["fields"]) =>
           /\ issue.f["fields"].f["parent"].k = "obj"
           /\ {"key", "fields"} \subseteq DOMAIN issue.f["fields"].f["parent"].f
           /\ issue.f["fields"].f["parent"].f["fields"].k = "obj"

\* The normalized issue the specification describes for a record.
Normalized(issue, out) ==
    /\ out.ok
    /\ out.v.k = "obj"
    /\ DOMAIN out.v.f = {"key", "summary", "status", "description", "parent"}
    /\ out.v.f["key"] = issue.f["key"]
    /\ out.v.f["summary"] = Get(issue.f["fields"], "summary", JStr(<<>>))
    /\ "status" \notin DOMAIN issue.f["fields"].f =>
           out.v.f["status"] = JStr(<<>>)
    /\ Get(issue.f["fields"], "description", JNull) = JNull =>
           out.v.f["description"] = JStr(<<>>)
    /\ Get(issue.f["fields"], "description", JNull) # JNull =>
           /\ ConvertAdfToMarkdown(issue.f["fields"].f["description"]).ok
           /\ out.v.f["description"]
                  = JStr(ConvertAdfToMarkdown(issue.f["fields"].f["description"]).s)
    /\ ~HasParent(issue.f["fields"]) => out.v.f["parent"] = JNull
    /\ HasParent(issue.f["fields"]) =>
           /\ out.v.f["parent"].k = "obj"
           /\ out.v.f["parent"].f["key"] = issue.f["fields"].f["parent"].f["key"]
           /\ out.v.f["parent"].f["summary"]
                  = Get(issue.f["fields"].f["parent"].f["fields"], "summary",
                        JStr(<<>>))

\* C14: every raw record with a key and a fields map is mapped to one
\* normalized issue without raising: summary and status '' when absent,
\* description '' when absent or null and the converter's output otherwise,
\* parent None unless a parent reference is present, then its key and the
\* summary of its embedded fields.
C14_EveryRecordIsNormalized ==
    (conv_call = "issue" /\ HasKeyAndFields(conv_in)) =>
        Normalized(conv_in, conv_out)

\* The same for the records whose fields have the shapes Jira sends.
JiraShapedRecordIsNormalized ==
    (conv_call = "issue" /\ AsJiraSends(conv_in)) =>
        Normalized(conv_in, conv_out)

\* A record whose status is null has made _process_issue raise.
StatusNullRaises ==
    /\ conv_call = "issue"
    /\ conv_in = JObj([key |-> JStr(K_DEMO1),
                       fields |-> JObj([status |-> JNull])])
    /\ conv_out = Raise("AttributeError")

----------------------------------------------------------------------------
(* Properties of the media branch *)

\* A node of one of the given types whose children, if any, are a list.
NodeOfType(node, types) ==
    /\ node.k = "obj"
    /\ "type" \in DOMAIN node.f
    /\ node.f["type"] \in {JStr(t) : t \in types}
    /\ Get(node, "content", JList(<<>>)).k = "list"

\* C15: a media node and a media-group node both convert to the placeholder
\* comment and two newlines, whatever their children: one placeholder per
\* node, never the children's text, never the empty string.
C15_MediaAndMediaGroupArePlaceholders ==
    (conv_call = "process" /\ NodeOfType(conv_in, {T_media, T_mediaGroup})) =>
        conv_out = Ok(MediaPlaceholder)

\* The same for the two types the media branch names.
MediaAndMediaSingleArePlaceholders ==
    (conv_call = "process" /\ NodeOfType(conv_in, {T_media, T_mediaSingle})) =>
        conv_out = Ok(MediaPlaceholder)

\* A media group has been converted to the text of its child.
MediaGroupShowsItsChild ==
    /\ conv_call = "process"
    /\ conv_in = Node(T_mediaGroup, <<TextNode(S_X)>>)
    /\ conv_out = Ok(S_X)

----------------------------------------------------------------------------
(* Properties of the list branches *)

StartsWith(line, p) == Len(p) <= Len(line) /\ SubSeq(line, 1, Len(p)) = p

\* The lines of a text that are not blank.
NonBlankLines(s) == SelectSeq(SplitLines(s), LAMBDA l : Strip(l) # <<>>)

ItemsOf(list) == list.f["content"].xs
\* The text of an item's paragraph, and the list nested in the item, if any.
ItemText(item) == item.f["content"].xs[1].f["content"].xs[1].f["text"].s
NestedIn(item) == SubSeq(item.f["content"].xs, 2, Len(item.f["content"].xs))

\* 'N. ' under an ordered list, '- ' otherwise
MarkerUnder(list, i) ==
    IF list.f["type"] = JStr(T_orderedList)
    THEN IntToStr(i) \o <<".", " ">> ELSE <<"-", " ">>

\* What the line of each item of a list at a level has to begin with: two
\* spaces per level, the marker, the item's own text; the items of a nested
\* list one level deeper.
RECURSIVE ItemStarts(_, _)
ItemStarts(list, level) ==
    UNION {{Repeat(<<" ", " ">>, level) \o MarkerUnder(list, i)
                \o ItemText(ItemsOf(list)[i])}
           \cup UNION {ItemStarts(NestedIn(ItemsOf(list)[i])[j], level + 1) :
                           j \in 1..Len(NestedIn(ItemsOf(list)[i]))} :
           i \in 1..Len(ItemsOf(list))}

\* The number of items of a list, those of nested lists included.
RECURSIVE CountItems(_)
RECURSIVE CountFrom(_, _)
CountFrom(items, i) ==
    IF i > Len(items) THEN 0
    ELSE 1 + (IF NestedIn(items[i]) = <<>> THEN 0
              ELSE CountItems(NestedIn(items[i])[1]))
         + CountFrom(items, i + 1)
CountItems(list) == CountFrom(ItemsOf(list), 1)

EveryItemHasItsLine(list, out) ==
    /\ out.ok
    /\ Len(NonBlankLines(out.s)) = CountItems(list)
    /\ \A e \in ItemStarts(list, 0) :
           \E i \in 1..Len(NonBlankLines(out.s)) :
               StartsWith(NonBlankLines(out.s)[i], e)

\* C16: every list item at nesting level L is a line of its own that begins
\* with 2*L spaces and its marker ('N. ' under an ordered list, N its place
\* among its siblings, '- ' otherwise), the items of a list nested inside a
\* list item included, one level deeper than that item.
C16_EveryListItemOnItsOwnIndentedLine ==
    (conv_call = "process" /\ conv_in \in ListShapes) =>
        EveryItemHasItsLine(conv_in, conv_out)

\* The same for the lists none of whose items holds a list.
FlatListItemOnItsOwnLine ==
    (/\ conv_call = "process"
     /\ conv_in \in ListShapes
     /\ \A i \in 1..Len(ItemsOf(conv_in)) :
            NestedIn(ItemsOf(conv_in)[i]) = <<>>) =>
        EveryItemHasItsLine(conv_in, conv_out)

\* The first item of a nested list has been put on the line of the item
\* that holds the list.
NestedItemJoinsItsParent ==
    /\ conv_call = "process"
    /\ conv_in = Node(T_bulletList,
                      <<ItemHolding(S_X, Node(T_bulletList,
                                              <<ListItemOf(S_hi),
                                                ListItemOf(S_py)>>))>>)
    /\ conv_out = Ok(<<"-", " ", "X", " ", "-", " ", "h", "i", "\n",
                       " ", " ", "-", " ", "p", "y", "\n", "\n">>)

----------------------------------------------------------------------------
(* Properties of the cursor and of the is-last flag *)

\* A successful answer with a cursor and isLast true.
LastWithCursor(r) ==
    /\ r # NoResponse
    /\ r.status = 200
    /\ Truthy(Get(r.data, "nextPageToken", JNull))
    /\ Get(r.data, "isLast", JBool(FALSE)) = JBool(TRUE)

\* C17: an answer that carries a cursor and isLast true ends the loop once
\* its issues are accumulated, with no further request; an answer with
\* issues and a cursor whose isLast is absent or false does not end the loop
\* below the page cap.
C17_IsLastStopsAndItsAbsenceDoesNot ==
    /\ [](LastWithCursor(last_response) =>
              /\ ~InLoop
              /\ ProcessAll(PageRecords(last_response), 1).ok =>
                     /\ Returned
                     /\ fetch_result = OkSeq(all_issues)
                     /\ EndsWith(all_issues,
                                 ProcessAll(PageRecords(last_response), 1).xs))
    /\ [][(/\ InLoop
           /\ AsksForMore(last_response')
           /\ ProcessAll(PageRecords(last_response'), 1).ok
           /\ page_count' < MaxPages)
              => /\ InLoop'
                 /\ next_page_token' = last_response'.data.f["nextPageToken"]
                 /\ EndsWith(all_issues',
                             ProcessAll(PageRecords(last_response'), 1).xs)]_vars

\* The second answer carried a record, a cursor and isLast true, after a
\* first answer whose isLast was false.
C17_Witness ==
    /\ page_count = 2
    /\ last_response = SearchOk(JList(<<Raw1>>), JStr(TokenB), JBool(TRUE))
    /\ received = <<Raw1, Raw2, Raw1>>
    /\ Returned
    /\ Len(all_issues) = 3

\* C18: the first request of a call carries no nextPageToken; every later
\* request carries the nextPageToken of the answer just before it; query,
\* page size 100 and field list are the same in every request of the call.
C18_EachRequestCarriesThePreviousCursor ==
    [][InLoop =>
           /\ page_count = 0 => "nextPageToken" \notin DOMAIN last_payload'
           /\ page_count >= 1 =>
                  /\ "nextPageToken" \in DOMAIN last_response.data.f
                  /\ "nextPageToken" \in DOMAIN last_payload'
                  /\ last_payload'.nextPageToken
                         = last_response.data.f["nextPageToken"]
                  /\ last_payload'.jql = last_payload.jql
                  /\ last_payload'.maxResults = last_payload.maxResults
                  /\ last_payload'.fields = last_payload.fields
           /\ last_payload'.jql = jql
           /\ jql' = jql
           /\ last_payload'.maxResults = 100
           /\ last_payload'.fields
                  = <<"summary", "description", "status", "parent">>]_vars

\* The second request carried the first answer's cursor, and its answer
\* brought another one.
C18_Witness ==
    /\ page_count = 2
    /\ "nextPageToken" \in DOMAIN last_payload
    /\ last_payload.nextPageToken = JStr(TokenA)
    /\ Get(last_response.data, "nextPageToken", JNull) = JStr(TokenB)
    /\ InLoop

----------------------------------------------------------------------------
(* Properties of the session flag *)

\* The step is the whole of a request to /api/authenticate.
AuthenticateStep == pc = "idle" /\ route' = "authenticate"

\* C19: in a session the authenticated flag goes from unset to set only in
\* an authenticate request whose test_connection got status 200; the
\* projects, stats and export routes, asked while the flag is unset, call
\* Jira not once and answer 401; an authenticate request that fails leaves
\* the flag as it was.
C19_FlagSetOnlyByConnectionTest ==
    /\ [][authenticated' # authenticated =>
              /\ authenticated'
              /\ AuthenticateStep
              /\ jira_calls'.myself = 1
              /\ myself'.status = 200
              /\ http'.status = 200]_vars
    /\ [][(AuthenticateStep /\ myself'.status # 200) =>
              /\ authenticated' = authenticated
              /\ http'.status \in {400, 401}]_vars
    /\ [][(/\ pc = "idle"
           /\ ~authenticated
           /\ route' \in {"projects", "stats", "export"}) =>
              /\ http'.status = 401
              /\ http'.error = "Not authenticated"
              /\ jira_calls' = NoCalls
              /\ pc' = "idle"
              /\ ~authenticated']_vars
    /\ [](~authenticated => pc = "idle" /\ jira_calls.project_search = 0
                            /\ jira_calls.search = 0 /\ jira_calls.count = 0
                            /\ jira_calls.project = 0)

\* The connection test got 200 and the flag is set.
C19_Witness ==
    /\ route = "authenticate"
    /\ myself.status = 200
    /\ http.status = 200
    /\ authenticated

\* A session without the flag: 401 from a route, a failed authentication.
UnauthenticatedExportRefused ==
    /\ ~authenticated
    /\ creds = AllCreds
    /\ route = "export"
    /\ http.status = 401
FailedAuthenticationLeavesFlagUnset ==
    /\ ~authenticated
    /\ route = "authenticate"
    /\ myself.status = 401
    /\ http.status = 401

----------------------------------------------------------------------------
(* Properties of get_all_projects *)

\* An answer with no projects, or whose isLast is true or absent.
EndsProjects(r) ==
    \/ ~Truthy(Get(r.data, "values", JList(<<>>)))
    \/ Get(r.data, "isLast", JBool(TRUE)) = JBool(TRUE)

\* The entries of the projects of the answers from the i-th on, in order.
RECURSIVE ReceivedProjects(_, _)
ReceivedProjects(pages, i) ==
    IF i > Len(pages) THEN <<>>
    ELSE ProjectEntries(Get(pages[i].data, "values", JList(<<>>)).xs)
         \o ReceivedProjects(pages, i + 1)

ProjectsReturned == route = "projects" /\ pc = "idle" /\ http.status = 200

\* Requests at startAt 0, 50, 100, ...; the loop goes on only past answers
\* that do not end it; a return follows the first answer that ends it and
\* hands back every project received, once, in order.
ProjectPagingIsSound ==
    /\ pc = "projects" =>
           /\ Len(project_pages) = jira_calls.project_search
           /\ start_at = 50 * Len(project_pages)
           /\ \A i \in 1..Len(project_pages) : ~EndsProjects(project_pages[i])
           /\ all_projects = ReceivedProjects(project_pages, 1)
    /\ ProjectsReturned =>
           /\ project_pages # <<>>
           /\ EndsProjects(project_pages[Len(project_pages)])
           /\ \A i \in 1..(Len(project_pages) - 1) :
                  ~EndsProjects(project_pages[i])
           /\ http.body = JList(ReceivedProjects(project_pages, 1))

StillAskingForProjects ==
    /\ pc = "projects"
    /\ jira_calls.project_search = MaxProjectRequests
    /\ start_at = 50 * MaxProjectRequests
    /\ Len(all_projects) >= MaxProjectRequests

====
